---------------------------- MODULE Spec2Model ----------------------------
(***************************************************************************)
(* A model of automatic_release.py: the release tool that computes the     *)
(* next vMAJOR.MINOR.PATCH tag of a repository, records it in the VERSION  *)
(* marker file and, in the post-build stage, commits, tags and pushes it.  *)
(*                                                                         *)
(* Strings are sequences of one-character strings.  Python tuples are      *)
(* 0-indexed, TLA+ tuples 1-indexed: version[0] is written v[1].           *)
(***************************************************************************)
EXTENDS Integers, Sequences, FiniteSets, TLC

(***************************************************************************)
(* Bounds of the model.                                                    *)
(***************************************************************************)
\* longest string handed to parse_version in SpecParse
MaxLen == 8
\* largest version component handed to version_string in SpecRound
MaxComp == 21
\* number of invocations of the tool in Spec
MaxRuns == 2

(***************************************************************************)
(* Python values.                                                          *)
(***************************************************************************)
None == <<>>

Ok(v) == [exc |-> "none", val |-> v]

Raise(e) == [exc |-> e, val |-> None]

DigitChars == <<"0", "1", "2", "3", "4", "5", "6", "7", "8", "9">>

IsDigit(c) == \E d \in 1..10 : DigitChars[d] = c

DigitVal(c) == (CHOOSE d \in 1..10 : DigitChars[d] = c) - 1

Whitespace == {" ", "\n", "\t"}

\* int(s) for a non-empty run of decimal digits
RECURSIVE int(_)
int(s) ==
    IF Len(s) = 0 THEN 0
    ELSE int(SubSeq(s, 1, Len(s) - 1)) * 10 + DigitVal(s[Len(s)])

\* str(n) / f"{n}" for a non-negative integer
RECURSIVE str(_)
str(n) ==
    IF n < 10 THEN <<DigitChars[n + 1]>>
    ELSE str(n \div 10) \o <<DigitChars[(n % 10) + 1]>>

\* s.strip()
RECURSIVE strip(_)
strip(s) ==
    IF Len(s) = 0 THEN s
    ELSE IF s[1] \in Whitespace THEN strip(SubSeq(s, 2, Len(s)))
    ELSE IF s[Len(s)] \in Whitespace THEN strip(SubSeq(s, 1, Len(s) - 1))
    ELSE s

\* s.splitlines(): the lines of s without their line breaks; no line for
\* the empty string, and none after a final line break
RECURSIVE splitlines(_)
splitlines(s) ==
    IF Len(s) = 0 THEN <<>>
    ELSE IF \E i \in 1..Len(s) : s[i] = "\n"
    THEN LET i == CHOOSE i \in 1..Len(s) :
                      s[i] = "\n" /\ \A k \in 1..(i - 1) : s[k] # "\n"
         IN <<SubSeq(s, 1, i - 1)>> \o splitlines(SubSeq(s, i + 1, Len(s)))
    ELSE <<s>>

(***************************************************************************)
(* version_tag_regex = v([0-9]+)\.([0-9]+)\.([0-9]+)                       *)
(***************************************************************************)
\* [0-9]+ scanned greedily from position i: the first position after the run
RECURSIVE DigitsEnd(_, _)
DigitsEnd(s, i) ==
    IF i <= Len(s) /\ IsDigit(s[i]) THEN DigitsEnd(s, i + 1) ELSE i

NoMatch == [groups |-> <<>>, end |-> 0]

\* The regex matched at the start of s: the three groups and the position
\* after the match, or NoMatch.  What follows a digit run in the pattern is
\* never a digit, so the greedy run is the only one that can match.
regex_match(s) ==
    IF Len(s) >= 1 /\ s[1] = "v"
    THEN LET e1 == DigitsEnd(s, 2) IN
         IF e1 > 2 /\ e1 <= Len(s) /\ s[e1] = "."
         THEN LET e2 == DigitsEnd(s, e1 + 1) IN
              IF e2 > e1 + 1 /\ e2 <= Len(s) /\ s[e2] = "."
              THEN LET e3 == DigitsEnd(s, e2 + 1) IN
                   IF e3 > e2 + 1
                   THEN [groups |-> <<SubSeq(s, 2, e1 - 1),
                                      SubSeq(s, e1 + 1, e2 - 1),
                                      SubSeq(s, e2 + 1, e3 - 1)>>,
                         end |-> e3]
                   ELSE NoMatch
              ELSE NoMatch
         ELSE NoMatch
    ELSE NoMatch

\* re.fullmatch: the match must end at the end of the string
fullmatch(s) ==
    LET m == regex_match(s) IN
    IF m # NoMatch /\ m.end = Len(s) + 1 THEN m ELSE NoMatch

\* re.match: a match of a prefix is enough
parse_version_prefix(version) ==
    LET result == regex_match(version) IN
    IF result # NoMatch
    THEN <<int(result.groups[1]), int(result.groups[2]), int(result.groups[3])>>
    ELSE None

\* the groups returned in the wrong order
parse_version_swapped(version) ==
    LET result == fullmatch(version) IN
    IF result # NoMatch
    THEN <<int(result.groups[1]), int(result.groups[3]), int(result.groups[2])>>
    ELSE None

parse_version(version) ==
    LET result == fullmatch(version) IN
    IF result # NoMatch
    THEN <<int(result.groups[1]), int(result.groups[2]), int(result.groups[3])>>
    ELSE None

\* the 'v' prefix left out
version_string_bare(version) ==
    str(version[1]) \o <<".">> \o str(version[2]) \o <<".">> \o str(version[3])

version_string(version) ==
    <<"v">> \o str(version[1]) \o <<".">> \o str(version[2])
            \o <<".">> \o str(version[3])

(***************************************************************************)
(* Reading the repository and the marker file.                             *)
(***************************************************************************)
\* the elements of a finite set, one after the other
RECURSIVE SeqOf(_)
SeqOf(S) ==
    IF S = {} THEN <<>>
    ELSE LET x == CHOOSE x \in S : TRUE IN <<x>> \o SeqOf(S \ {x})

\* get_tags(): the lines `git tag` prints for the tags of the repository,
\* each stripped
get_tags(tags) ==
    LET lines == SeqOf(tags) IN [i \in 1..Len(lines) |-> strip(lines[i])]

\* get_versions(): the Version of every tag that parses, in the order of the
\* tag list
RECURSIVE get_versions_of(_)
get_versions_of(lines) ==
    IF Len(lines) = 0 THEN <<>>
    ELSE LET result == parse_version(lines[1]) IN
         (IF result # None THEN <<result>> ELSE <<>>)
             \o get_versions_of(SubSeq(lines, 2, Len(lines)))

get_versions(tags) == get_versions_of(get_tags(tags))

\* get_current_version(): the outcome is a value, or the exception raised
get_current_version(exists, content) ==
    IF exists
    THEN LET lines == splitlines(content) IN
         IF Len(lines) = 0 THEN Raise("IndexError")
         ELSE Ok(parse_version(strip(lines[1])))
    ELSE Ok(<<1, 0, 0>>)

\* max(xs) of a non-empty list
RECURSIVE max(_)
max(xs) ==
    IF Len(xs) = 1 THEN xs[1]
    ELSE LET m == max(SubSeq(xs, 2, Len(xs))) IN
         IF xs[1] >= m THEN xs[1] ELSE m

\* the bugfix revisions of the versions on current_version's major.minor
\* line, in order
RECURSIVE bugfix_revs_of(_, _)
bugfix_revs_of(current_version, versions) ==
    IF Len(versions) = 0 THEN <<>>
    ELSE LET v == versions[1] IN
         (IF v[1] = current_version[1] /\ v[2] = current_version[2]
          THEN <<v[3]>> ELSE <<>>)
             \o bugfix_revs_of(current_version,
                               SubSeq(versions, 2, Len(versions)))

\* the maximum taken as the next revision, not its successor
next_version_no_increment(current_version, versions) ==
    LET bugfix_revs == bugfix_revs_of(current_version, versions) IN
    IF Len(bugfix_revs) = 0
    THEN <<current_version[1], current_version[2], 0>>
    ELSE <<current_version[1], current_version[2], max(bugfix_revs)>>

\* the stored patch used as a floor
next_version_patch_floor(current_version, versions) ==
    LET bugfix_revs == bugfix_revs_of(current_version, versions) IN
    IF Len(bugfix_revs) = 0
    THEN <<current_version[1], current_version[2], current_version[3]>>
    ELSE <<current_version[1], current_version[2],
           max(<<current_version[3]>> \o bugfix_revs) + 1>>

\* every tag of the same major counted, whatever its minor
RECURSIVE major_revs_of(_, _)
major_revs_of(current_version, versions) ==
    IF Len(versions) = 0 THEN <<>>
    ELSE (IF versions[1][1] = current_version[1]
          THEN <<versions[1][3]>> ELSE <<>>)
             \o major_revs_of(current_version,
                              SubSeq(versions, 2, Len(versions)))

next_version_major_only(current_version, versions) ==
    LET bugfix_revs == major_revs_of(current_version, versions) IN
    IF Len(bugfix_revs) = 0
    THEN <<current_version[1], current_version[2], 0>>
    ELSE <<current_version[1], current_version[2], max(bugfix_revs) + 1>>

\* lines 34-40 of get_next_version, for a current version that is a tuple
next_version_of(current_version, versions) ==
    LET bugfix_revs == bugfix_revs_of(current_version, versions) IN
    IF Len(bugfix_revs) = 0
    THEN <<current_version[1], current_version[2], 0>>
    ELSE <<current_version[1], current_version[2], max(bugfix_revs) + 1>>

\* get_next_version(): subscripting None raises TypeError, in the filter
\* or, when no tag parses, in the return
get_next_version(exists, content, tags) ==
    LET current_version == get_current_version(exists, content) IN
    IF current_version.exc # "none" THEN current_version
    ELSE IF current_version.val = None THEN Raise("TypeError")
    ELSE Ok(next_version_of(current_version.val, get_versions(tags)))

(***************************************************************************)
(* __main__: the order of the calls, and what follows a subprocess.        *)
(***************************************************************************)
\* the exit status of the command ignored
check_output_unchecked(ok, next) == next

\* subprocess.check_output: a command that fails raises CalledProcessError,
\* which nothing catches
check_output(ok, next) == IF ok THEN next ELSE "aborted"

\* the commit made in both stages
after_write_always_commit(s) == "add"

\* what follows write_version_file in the stage's branch of __main__
after_write(s) == IF s = "pre-build" THEN "print" ELSE "add"

(***************************************************************************)
(* The environment the tool is run in.                                     *)
(***************************************************************************)
\* tags the repository may hold at the start
LocalPool ==
    { <<"v", "1", ".", "0", ".", "0">>,
      <<"v", "1", ".", "0", ".", "0", "2">>,
      <<"v", "1", ".", "1", ".", "0">>,
      <<"v", "2", ".", "0", ".", "1">>,
      <<"l", "a", "t", "e", "s", "t">> }

\* tags somebody else may push to the remote between two invocations
RemotePool == { <<"v", "1", ".", "0", ".", "3">> }

\* contents of a VERSION file found at the start
MarkerPool ==
    { <<"v", "1", ".", "0", ".", "0">>,
      <<"v", "2", ".", "0", ".", "5", "\n">>,
      <<" ", "v", "1", ".", "1", ".", "7", " ", "\n", "v", "9", ".", "9", ".", "9">>,
      <<>>,
      <<" ", "\n">>,
      <<"1", ".", "0", ".", "0">> }

Stages == {"pre-build", "post-build"}

Unread == [exc |-> "unread", val |-> None]

NoPre == [ok |-> FALSE, version |-> None, tags |-> {}]

VersionEq == <<"v", "e", "r", "s", "i", "o", "n", "=">>

VARIABLES
    pc,               \* where the invocation stands; "idle" between two
    stage,            \* args.stage
    runs,             \* invocations started
    markerExists,     \* os.path.isfile('VERSION')
    markerContent,    \* the content of VERSION
    localTags,        \* the tags of the working repository
    remoteTags,       \* the tags of the remote
    commits,          \* commits on the local branch
    remoteCommits,    \* commits on the remote branch
    staged,           \* VERSION is staged in the index
    current_version,  \* get_current_version()'s outcome in get_next_version
    next_version,     \* __main__'s next_version
    tagsSeen,         \* the tag list `git tag` printed to get_versions
    log,              \* the calls of this invocation that succeeded
    stdout,           \* the lines printed by this invocation
    written,          \* the tool has written VERSION
    lastPre,          \* the previous invocation, when a pre-build that finished
    arg,              \* the argument of a function called on its own
    ret               \* and what it returned

vars == <<pc, stage, runs, markerExists, markerContent, localTags, remoteTags,
          commits, remoteCommits, staged, current_version, next_version,
          tagsSeen, log, stdout, written, lastPre, arg, ret>>

repo == <<markerExists, markerContent, localTags, remoteTags, commits,
          remoteCommits, staged, written>>

locals == <<current_version, next_version, tagsSeen>>

NoInvocation ==
    /\ stage = "none"
    /\ runs = 0
    /\ commits = 0
    /\ remoteCommits = 0
    /\ staged = FALSE
    /\ current_version = Unread
    /\ next_version = None
    /\ tagsSeen = {}
    /\ log = <<>>
    /\ stdout = <<>>
    /\ written = FALSE
    /\ lastPre = NoPre

Init ==
    /\ pc = "idle"
    /\ NoInvocation
    /\ localTags \in SUBSET LocalPool
    /\ remoteTags = localTags
    /\ \/ markerExists = FALSE /\ markerContent = <<>>
       \/ markerExists = TRUE /\ markerContent \in MarkerPool
    /\ arg = None
    /\ ret = None

\* somebody else pushes a tag to the remote
RemoteTagPushed ==
    /\ pc = "idle"
    /\ \E t \in RemotePool \ remoteTags : remoteTags' = remoteTags \cup {t}
    /\ UNCHANGED <<pc, stage, runs, markerExists, markerContent, localTags,
                   commits, remoteCommits, staged, locals, log, stdout,
                   written, lastPre, arg, ret>>

\* the tool is started with --stage s
Invoke ==
    /\ pc = "idle"
    /\ runs < MaxRuns
    /\ \E s \in Stages : stage' = s
    /\ runs' = runs + 1
    /\ pc' = "fetch"
    /\ UNCHANGED <<repo, locals, log, stdout, lastPre, arg, ret>>

\* fetch_tags: git fetch --tags
FetchTags ==
    /\ pc = "fetch"
    /\ \E ok \in BOOLEAN :
          /\ pc' = check_output(ok, "compute")
          /\ IF ok
             THEN /\ localTags' = localTags \cup remoteTags
                  /\ log' = Append(log, "fetch")
             ELSE UNCHANGED <<localTags, log>>
    /\ UNCHANGED <<stage, runs, markerExists, markerContent, remoteTags,
                   commits, remoteCommits, staged, locals, stdout, written,
                   lastPre, arg, ret>>

\* next_version = get_next_version()
GetNextVersion ==
    /\ pc = "compute"
    /\ current_version' = get_current_version(markerExists, markerContent)
    /\ \/ \* `git tag` fails once the marker file has been read
          /\ current_version'.exc = "none"
          /\ pc' = check_output(FALSE, "write")
          /\ UNCHANGED <<next_version, tagsSeen, log>>
       \/ \* `git tag` prints the tags, or is never reached
          LET r == get_next_version(markerExists, markerContent, localTags) IN
          IF r.exc = "none"
          THEN /\ next_version' = r.val
               /\ tagsSeen' = localTags
               /\ log' = Append(log, "compute")
               /\ pc' = "write"
          ELSE /\ pc' = "aborted"
               /\ UNCHANGED <<next_version, tagsSeen, log>>
    /\ UNCHANGED <<stage, runs, repo, stdout, lastPre, arg, ret>>

\* write_version_file(next_version)
WriteVersionFile ==
    /\ pc = "write"
    /\ markerExists' = TRUE
    /\ markerContent' = version_string(next_version)
    /\ written' = TRUE
    /\ log' = Append(log, "write")
    /\ pc' = after_write(stage)
    /\ UNCHANGED <<stage, runs, localTags, remoteTags, commits, remoteCommits,
                   staged, locals, stdout, lastPre, arg, ret>>

\* commit_version_file: git add VERSION
GitAdd ==
    /\ pc = "add"
    /\ \E ok \in BOOLEAN :
          /\ pc' = check_output(ok, "commit")
          /\ IF ok
             THEN /\ staged' = TRUE
                  /\ log' = Append(log, "add")
             ELSE UNCHANGED <<staged, log>>
    /\ UNCHANGED <<stage, runs, markerExists, markerContent, localTags,
                   remoteTags, commits, remoteCommits, locals, stdout, written,
                   lastPre, arg, ret>>

\* commit_version_file: git commit --allow-empty
GitCommit ==
    /\ pc = "commit"
    /\ \E ok \in BOOLEAN :
          /\ pc' = check_output(ok, "tag")
          /\ IF ok
             THEN /\ commits' = commits + 1
                  /\ staged' = FALSE
                  /\ log' = Append(log, "commit")
             ELSE UNCHANGED <<commits, staged, log>>
    /\ UNCHANGED <<stage, runs, markerExists, markerContent, localTags,
                   remoteTags, remoteCommits, locals, stdout, written, lastPre,
                   arg, ret>>

\* tag_version: git tag <name>, which fails when the tag exists
TagVersion ==
    /\ pc = "tag"
    /\ \E ok \in BOOLEAN :
          /\ ok => version_string(next_version) \notin localTags
          /\ pc' = check_output(ok, "push_branch")
          /\ IF ok
             THEN /\ localTags' = localTags \cup {version_string(next_version)}
                  /\ log' = Append(log, "tag")
             ELSE UNCHANGED <<localTags, log>>
    /\ UNCHANGED <<stage, runs, markerExists, markerContent, remoteTags,
                   commits, remoteCommits, staged, locals, stdout, written,
                   lastPre, arg, ret>>

\* push_tag: git push <url>
PushBranch ==
    /\ pc = "push_branch"
    /\ \E ok \in BOOLEAN :
          /\ pc' = check_output(ok, "push_tag")
          /\ IF ok
             THEN /\ remoteCommits' = commits
                  /\ log' = Append(log, "push_branch")
             ELSE UNCHANGED <<remoteCommits, log>>
    /\ UNCHANGED <<stage, runs, markerExists, markerContent, localTags,
                   remoteTags, commits, staged, locals, stdout, written,
                   lastPre, arg, ret>>

\* push_tag: git push <url> <name>
PushTag ==
    /\ pc = "push_tag"
    /\ \E ok \in BOOLEAN :
          /\ pc' = check_output(ok, "print")
          /\ IF ok
             THEN /\ remoteTags' = remoteTags \cup {version_string(next_version)}
                  /\ log' = Append(log, "push_tag")
             ELSE UNCHANGED <<remoteTags, log>>
    /\ UNCHANGED <<stage, runs, markerExists, markerContent, localTags,
                   commits, remoteCommits, staged, locals, stdout, written,
                   lastPre, arg, ret>>

\* print(f"version={version_string(next_version)}")
PrintVersion ==
    /\ pc = "print"
    /\ stdout' = Append(stdout, VersionEq \o version_string(next_version))
    /\ log' = Append(log, "print")
    /\ pc' = "done"
    /\ UNCHANGED <<stage, runs, repo, locals, lastPre, arg, ret>>

\* the process ends; its variables and its output go with it
Exit ==
    /\ pc \in {"done", "aborted"}
    /\ lastPre' = IF stage = "pre-build" /\ pc = "done"
                  THEN [ok |-> TRUE, version |-> next_version,
                        tags |-> tagsSeen]
                  ELSE NoPre
    /\ pc' = "idle"
    /\ stage' = "none"
    /\ current_version' = Unread
    /\ next_version' = None
    /\ tagsSeen' = {}
    /\ log' = <<>>
    /\ stdout' = <<>>
    /\ UNCHANGED <<runs, repo, arg, ret>>

Next ==
    \/ RemoteTagPushed
    \/ Invoke
    \/ FetchTags
    \/ GetNextVersion
    \/ WriteVersionFile
    \/ GitAdd
    \/ GitCommit
    \/ TagVersion
    \/ PushBranch
    \/ PushTag
    \/ PrintVersion
    \/ Exit

Spec == Init /\ [][Next]_vars

(***************************************************************************)
(* parse_version and version_string called on their own.                   *)
(***************************************************************************)
\* the characters of the strings tried: the prefix, another letter, two
\* digits and the dot; all of them may occur in a tag name, which holds no
\* whitespace, so that get_tags' strip leaves these strings as they are
Alphabet == {"v", "V", "0", "7", "."}

\* the strings of k characters
Strings(k) == [1..k -> Alphabet]

Versions == (0..MaxComp) \X (0..MaxComp) \X (0..MaxComp)

InitParse ==
    /\ pc = "call"
    /\ NoInvocation
    /\ localTags = {}
    /\ remoteTags = {}
    /\ markerExists = FALSE
    /\ markerContent = <<>>
    /\ \E k \in 0..MaxLen : arg \in Strings(k)
    /\ ret = None

\* parse_version(arg), and get_versions() of a repository whose one tag is arg
ParseVersionCall ==
    /\ pc = "call"
    /\ ret' = [version |-> parse_version(arg), versions |-> get_versions({arg})]
    /\ pc' = "return"
    /\ UNCHANGED <<stage, runs, repo, locals, log, stdout, lastPre, arg>>

NextParse == ParseVersionCall

SpecParse == InitParse /\ [][NextParse]_vars

InitRound ==
    /\ pc = "format"
    /\ NoInvocation
    /\ localTags = {}
    /\ remoteTags = {}
    /\ markerExists = FALSE
    /\ markerContent = <<>>
    /\ arg \in Versions
    /\ ret = None

\* version_string(arg)
FormatVersion ==
    /\ pc = "format"
    /\ ret' = version_string(arg)
    /\ pc' = "parse"
    /\ UNCHANGED <<stage, runs, repo, locals, log, stdout, lastPre, arg>>

\* parse_version of the string version_string returned
ParseFormatted ==
    /\ pc = "parse"
    /\ ret' = parse_version(ret)
    /\ pc' = "return"
    /\ UNCHANGED <<stage, runs, repo, locals, log, stdout, lastPre, arg>>

NextRound == FormatVersion \/ ParseFormatted

SpecRound == InitRound /\ [][NextRound]_vars

(***************************************************************************)
(* Properties.                                                             *)
(***************************************************************************)
InLog(a) == \E i \in 1..Len(log) : log[i] = a

IsPrefix(a, b) == Len(a) <= Len(b) /\ a = SubSeq(b, 1, Len(a))

\* the Versions of the tags on cur's major.minor line
Matching(cur, tags) ==
    { v \in { parse_version(t) : t \in tags } :
        v # None /\ v[1] = cur[1] /\ v[2] = cur[2] }

\* 'v', then three non-empty runs of digits separated by single dots, and
\* nothing else
VersionShaped(s) ==
    \E i, j \in 1..Len(s) :
        /\ s[1] = "v"
        /\ 2 < i /\ i + 1 < j /\ j < Len(s)
        /\ s[i] = "." /\ s[j] = "."
        /\ \A k \in (2..Len(s)) \ {i, j} : IsDigit(s[k])

PreOrder == <<"fetch", "compute", "write", "print">>

PostOrder == <<"fetch", "compute", "write", "add", "commit", "tag",
               "push_branch", "push_tag", "print">>

\* C1: once get_next_version has returned and some tag parses to a Version on
\* the current version's major.minor line, the result is (major, minor, M + 1),
\* M the largest patch of those tags alone; it is above every patch of the line.
C1_NextPatch ==
    InLog("compute") =>
        LET cur == current_version.val
            line == Matching(cur, tagsSeen)
        IN line # {} =>
              /\ \E m \in line :
                    /\ \A x \in line : x[3] <= m[3]
                    /\ next_version = <<cur[1], cur[2], m[3] + 1>>
              /\ \A x \in line : next_version[3] > x[3]

C1_Witness ==
    /\ InLog("compute")
    /\ current_version.val = <<1, 1, 7>>
    /\ <<"v", "1", ".", "1", ".", "0">> \in tagsSeen
    /\ <<"v", "1", ".", "0", ".", "0", "2">> \in tagsSeen
    /\ <<"v", "2", ".", "0", ".", "1">> \in tagsSeen
    /\ next_version = <<1, 1, 1>>

\* C2: once get_next_version has returned and no tag parses to a Version on
\* the current version's major.minor line, the result is (major, minor, 0),
\* whatever the current version's patch.
C2_FreshLine ==
    InLog("compute") =>
        LET cur == current_version.val IN
        Matching(cur, tagsSeen) = {} => next_version = <<cur[1], cur[2], 0>>

C2_Witness ==
    /\ InLog("compute")
    /\ current_version.val = <<2, 0, 5>>
    /\ Matching(current_version.val, tagsSeen) = {}
    /\ tagsSeen # {}
    /\ next_version = <<2, 0, 0>>

\* C3: parse_version(version_string(v)) = v for every Version v.
C3_RoundTrip == pc = "return" => ret = arg

C3_Witness == pc = "return" /\ arg = <<10, 0, 21>> /\ ret = <<10, 0, 21>>

\* C4: parse_version returns None for every string that is not, as a whole,
\* 'v' and three dot-separated non-empty runs of digits, and get_versions
\* yields no Version for such a tag.
C4_NonMatch ==
    (pc = "return" /\ ~VersionShaped(arg)) =>
        ret.version = None /\ ret.versions = <<>>

C4_Witness ==
    /\ pc = "return"
    /\ arg = <<"v", "7", ".", "0", ".", "7", ".", "0">>
    /\ ret.version = None
    /\ ret.versions = <<>>

\* C5: whenever the tool has written VERSION, the file exists and its content
\* parses to a Version.
C5_MarkerValid ==
    written => markerExists /\ parse_version(markerContent) # None

C5_Witness ==
    /\ written
    /\ runs = 2
    /\ pc = "idle"
    /\ markerContent = <<"v", "1", ".", "0", ".", "4">>

\* C6: get_current_version returns a Version or None for every content of an
\* existing VERSION file and never raises.
C6_NeverRaises == current_version.exc \in {"unread", "none"}

\* C7: a post-build invocation makes its calls in the order fetch, compute,
\* write, add, commit, tag, push branch, push tag, print, each only after all
\* the earlier ones succeeded; the version line is printed only at the end,
\* the tag reaches the remote only after the commit and the local tag, and
\* an invocation that failed changes nothing more.
C7_PostState ==
    stage = "post-build" =>
        /\ IsPrefix(log, PostOrder)
        /\ stdout # <<>> => log = PostOrder
        /\ pc = "done" => log = PostOrder
        /\ (InLog("compute") /\ version_string(next_version) \in remoteTags) =>
              /\ InLog("push_tag")
              /\ version_string(next_version) \in localTags
              /\ commits > 0
        /\ (InLog("compute") /\ version_string(next_version) \in localTags) =>
              InLog("commit") /\ InLog("tag")

C7_PostOrder ==
    /\ []C7_PostState
    /\ [][(stage = "post-build" /\ pc = "aborted") =>
              (pc' = "idle" /\ repo' = repo /\ stdout' = <<>>)]_vars

C7_Witness ==
    /\ stage = "post-build"
    /\ pc = "done"
    /\ log = PostOrder
    /\ stdout = <<VersionEq \o version_string(next_version)>>
    /\ version_string(next_version) \in remoteTags

\* C8: a pre-build invocation only fetches tags, computes, writes VERSION and
\* prints: it stages nothing, makes no commit, creates no tag of its own and
\* leaves the remote as it is, whether it succeeds or fails.
C8_PreFrame ==
    /\ [](stage = "pre-build" => IsPrefix(log, PreOrder))
    /\ [][stage = "pre-build" =>
              /\ commits' = commits
              /\ staged' = staged
              /\ remoteTags' = remoteTags
              /\ remoteCommits' = remoteCommits
              /\ localTags \subseteq localTags'
              /\ localTags' \subseteq localTags \cup remoteTags]_vars

C8_Witness ==
    /\ stage = "pre-build"
    /\ pc = "done"
    /\ log = PreOrder
    /\ <<"v", "1", ".", "0", ".", "3">> \in localTags
    /\ markerContent = <<"v", "1", ".", "0", ".", "4">>

\* C9: in a post-build invocation the name of the tag to create is none of the
\* tag strings read when the version was computed, and none of the tags the
\* repository holds when `git tag <name>` runs.
C9_FreshTag ==
    (stage = "post-build" /\ InLog("compute")) =>
        /\ version_string(next_version) \notin tagsSeen
        /\ pc = "tag" => version_string(next_version) \notin localTags

C9_Witness ==
    /\ stage = "post-build"
    /\ pc = "tag"
    /\ <<"v", "1", ".", "0", ".", "0", "2">> \in tagsSeen
    /\ next_version = <<1, 0, 3>>

\* C10: a post-build invocation that follows a finished pre-build and reads
\* the same tags computes the version the pre-build printed, and what it
\* writes, tags, pushes and prints is that version.
C10_Agreement ==
    (stage = "post-build" /\ lastPre.ok) =>
        /\ (InLog("fetch") /\ pc # "compute") =>
              current_version.exc = "none" /\ current_version.val # None
        /\ (InLog("compute") /\ tagsSeen = lastPre.tags) =>
              LET name == version_string(lastPre.version) IN
              /\ next_version = lastPre.version
              /\ InLog("write") => markerContent = name
              /\ InLog("tag") => localTags = tagsSeen \cup {name}
              /\ InLog("push_tag") => name \in remoteTags
              /\ stdout # <<>> => stdout = <<VersionEq \o name>>

C10_Witness ==
    /\ stage = "post-build"
    /\ lastPre.ok
    /\ tagsSeen = lastPre.tags
    /\ lastPre.version = <<1, 0, 3>>
    /\ pc = "done"
    /\ stdout = <<VersionEq \o <<"v", "1", ".", "0", ".", "3">>>>

=============================================================================
